---- MODULE Spec2Model ----
(***************************************************************************)
(* Heart-rate minutes-above-threshold tools (src/apple/main.py and         *)
(* src/fitbit/main.py).                                                    *)
(*                                                                         *)
(* Time is counted in whole seconds (both source formats end in %S).  An   *)
(* Apple timestamp is an offset-aware datetime, modelled by its wall-clock *)
(* reading and its UTC offset; a Fitbit timestamp is a naive datetime,     *)
(* modelled by its wall-clock reading alone.  A date key "YYYY-MM-DD" is   *)
(* modelled by the day number of the wall-clock reading.  The per-day map  *)
(* holds attributed seconds: the program's value is that number / 60.      *)
(***************************************************************************)
EXTENDS Integers, Sequences, FiniteSets, TLC

\* ---------------------------------------------------------------- bounds
\* longest list handed to the attribution engine
MaxLen == 3
\* size of a source: elements of the XML document, entries of the directory
MaxEntries == 2
\* files in the exports directory
MaxFiles == 2

\* ------------------------------------------------------------- constants
DayLen == 86400
AppleCap == 10
AppleFallback == 5
FitbitFallback == 3

\* ------------------------------------------------------------ input sets
Times == {86300, 86302, 86390, 86402}
Offsets == {0, 3600}
HeartRates == {149, 150}
MinBpms == {140, 150, 151}
Progs == {"apple", "fitbit"}

\* every instant with offset +0000, one of them also with offset +0100
ShiftedTimes == {86390}
AppleStamps ==
    {[wall |-> t, off |-> 0] : t \in Times}
      \cup {[wall |-> t + o, off |-> o] : t \in ShiftedTimes, o \in Offsets}
\* a record of the list: the engine reads its timestamp and heart_rate only
\* (the stored date_key and confidence are never read back)
AppleSamples == [timestamp : AppleStamps, heart_rate : HeartRates]
FitbitSamples == [timestamp : Times, heart_rate : HeartRates]

RunMinBpms == {150, 151}
\* <<start, end>> of the requested window
Windows == {<<86302, 86390>>, <<86300, 86402>>, <<86390, 86390>>}

\* an element of the XML document.  form tells how its attributes read:
\* "ok" (all present and parseable, giving timestamp and heart_rate),
\* "missing_attr" (startDate, endDate or value absent or empty),
\* "bad_date" (a date strptime rejects), "bad_value" (a value float rejects)
AppleElems ==
    [type : {"HeartRate"}, form : {"ok"},
     timestamp : AppleStamps, heart_rate : HeartRates]
      \cup [type : {"HeartRate"}, form : {"missing_attr", "bad_date", "bad_value"},
           timestamp : {[wall |-> 86302, off |-> 0]}, heart_rate : {150}]
      \cup [type : {"Other"}, form : {"ok"},
           timestamp : {[wall |-> 86302, off |-> 0]}, heart_rate : {150}]

\* an entry of a Fitbit file.  form: "ok", "bad_datetime" (dateTime missing
\* or rejected by strptime), "bad_value" (value or bpm missing or not a
\* number).  confidence is <<>> when the key is absent, <<c>> otherwise.
FitbitEntries ==
    [form : {"ok"}, timestamp : Times, bpm : {150},
     confidence : {<<>>, <<0>>, <<1>>}]
      \cup [form : {"bad_datetime", "bad_value"}, timestamp : {86302},
           bpm : {150}, confidence : {<<1>>}]

SeqsUpTo(S, n) == UNION {[1..k -> S] : k \in 0..n}

Min(a, b) == IF a <= b THEN a ELSE b

\* ------------------------------------------------------------- datetimes
\* the instant an aware datetime denotes: what comparison and subtraction
\* of aware datetimes work on
Instant(dt) == dt.wall - dt.off

\* apple get_date_key: strftime("%Y-%m-%d") prints the wall-clock date
apple_get_date_key(dt) == dt.wall \div DayLen

\* fitbit get_date_key: the date of the naive datetime
fitbit_get_date_key(dt) == dt \div DayLen

\* ------------------------------------------------------------------ sort
\* list.sort(key=...) is stable: an element goes after every element whose
\* key is not greater.  Pairs are <<key, record>>.
RECURSIVE InsertUnstable(_, _)
InsertUnstable(s, p) ==
    IF s = <<>> THEN <<p>>
    ELSE IF p[1] <= Head(s)[1] THEN <<p>> \o s
    ELSE <<Head(s)>> \o InsertUnstable(Tail(s), p)

InsertAppend(s, p) == Append(s, p)

RECURSIVE Insert(_, _)
Insert(s, p) ==
    IF s = <<>> THEN <<p>>
    ELSE IF p[1] < Head(s)[1] THEN <<p>> \o s
    ELSE <<Head(s)>> \o Insert(Tail(s), p)

RECURSIVE SortPairs(_)
SortPairs(s) ==
    IF s = <<>> THEN <<>>
    ELSE Insert(SortPairs(SubSeq(s, 1, Len(s) - 1)), s[Len(s)])

apple_sort(records) ==
    LET keyed == [i \in 1..Len(records) |->
                      <<Instant(records[i].timestamp), records[i]>>]
        sorted == SortPairs(keyed)
    IN [i \in 1..Len(records) |-> sorted[i][2]]

fitbit_sort(records) ==
    LET keyed == [i \in 1..Len(records) |->
                      <<records[i].timestamp, records[i]>>]
        sorted == SortPairs(keyed)
    IN [i \in 1..Len(records) |-> sorted[i][2]]

\* ----------------------------------------------------- attribution engine
AccumulateOverwrite(daily_minutes, date_key, duration) ==
    IF date_key \in DOMAIN daily_minutes
    THEN [daily_minutes EXCEPT ![date_key] = duration]
    ELSE daily_minutes @@ (date_key :> duration)

\* daily_minutes[date_key] += duration  (a defaultdict: a missing key starts
\* at 0 and is created by the +=, also when the duration is 0)
Accumulate(daily_minutes, date_key, duration) ==
    IF date_key \in DOMAIN daily_minutes
    THEN [daily_minutes EXCEPT ![date_key] = @ + duration]
    ELSE daily_minutes @@ (date_key :> duration)

QualifiesStrict(heart_rate, bpm) == heart_rate > bpm

Qualifies(heart_rate, bpm) == heart_rate >= bpm

AppleDurationUncapped(records, i) ==
    IF i < Len(records)
    THEN Instant(records[i + 1].timestamp) - Instant(records[i].timestamp)
    ELSE AppleFallback

\* the duration a qualifying reading stands for (large_gaps only feeds a
\* diagnostic print: after the cap no duration exceeds 60)
AppleDuration(records, i) ==
    IF i < Len(records)
    THEN Min(Instant(records[i + 1].timestamp) - Instant(records[i].timestamp),
             AppleCap)
    ELSE AppleFallback

FitbitDurationCapped(records, i) ==
    IF i < Len(records)
    THEN Min(records[i + 1].timestamp - records[i].timestamp, AppleCap)
    ELSE FitbitFallback

FitbitDuration(records, i) ==
    IF i < Len(records)
    THEN records[i + 1].timestamp - records[i].timestamp
    ELSE FitbitFallback

RECURSIVE AppleLoop(_, _, _, _)
AppleLoop(records, bpm, i, daily_minutes) ==
    IF i > Len(records) THEN daily_minutes
    ELSE IF Qualifies(records[i].heart_rate, bpm)
         THEN AppleLoop(records, bpm, i + 1,
                        Accumulate(daily_minutes,
                                   apple_get_date_key(records[i].timestamp),
                                   AppleDuration(records, i)))
         ELSE AppleLoop(records, bpm, i + 1, daily_minutes)

RECURSIVE FitbitLoop(_, _, _, _)
FitbitLoop(records, bpm, i, daily_minutes) ==
    IF i > Len(records) THEN daily_minutes
    ELSE IF Qualifies(records[i].heart_rate, bpm)
         THEN FitbitLoop(records, bpm, i + 1,
                         Accumulate(daily_minutes,
                                    fitbit_get_date_key(records[i].timestamp),
                                    FitbitDuration(records, i)))
         ELSE FitbitLoop(records, bpm, i + 1, daily_minutes)

\* calculate_all_high_bpm_time: the list as the call leaves it, and the map
\* it returns
apple_calculate_all_high_bpm_time(records, bpm) ==
    IF records = <<>> THEN [list |-> records, map |-> <<>>]
    ELSE LET sorted == apple_sort(records)
         IN [list |-> sorted, map |-> AppleLoop(sorted, bpm, 1, <<>>)]

fitbit_calculate_all_high_bpm_time(records, bpm) ==
    IF records = <<>> THEN [list |-> records, map |-> <<>>]
    ELSE LET sorted == fitbit_sort(records)
         IN [list |-> sorted, map |-> FitbitLoop(sorted, bpm, 1, <<>>)]

\* ------------------------------------------------------ ingestion: Apple
AppleOutsideWindowExclusive(record_start, start, end) ==
    Instant(record_start) <= start \/ Instant(record_start) >= end

\* record_start < start_utc or record_start > end_utc, on aware datetimes
\* (start_utc and end_utc carry offset +0000)
AppleOutsideWindow(record_start, start, end) ==
    Instant(record_start) < start \/ Instant(record_start) > end

\* the loop body of parse_heart_rate_data over the elements of the document
RECURSIVE AppleRecords(_, _, _)
AppleRecords(elems, start, end) ==
    IF elems = <<>> THEN <<>>
    ELSE LET elem == Head(elems)
             rest == AppleRecords(Tail(elems), start, end)
         IN IF elem.type # "HeartRate" THEN rest
            ELSE IF elem.form = "missing_attr" THEN rest
            ELSE IF elem.form \in {"bad_date", "bad_value"} THEN rest
            ELSE IF AppleOutsideWindow(elem.timestamp, start, end) THEN rest
            ELSE <<[timestamp |-> elem.timestamp,
                    heart_rate |-> elem.heart_rate]>> \o rest

\* ----------------------------------------------------- ingestion: Fitbit
FitbitOutsideWindowExclusive(timestamp, start, end) ==
    timestamp <= start \/ timestamp >= end

FitbitOutsideWindow(timestamp, start, end) ==
    timestamp < start \/ timestamp > end

\* entry["value"].get("confidence", 0)
GetConfidence(entry) ==
    IF entry.confidence = <<>> THEN 0 ELSE entry.confidence[1]

ConfidenceOKLax(confidence) == confidence >= 0

ConfidenceOK(confidence) == confidence >= 1

\* the loop over the entries of one file
RECURSIVE FitbitFileRecords(_, _, _)
FitbitFileRecords(data, start, end) ==
    IF data = <<>> THEN <<>>
    ELSE LET entry == Head(data)
             rest == FitbitFileRecords(Tail(data), start, end)
         IN IF entry.form = "bad_datetime" THEN rest
            ELSE IF FitbitOutsideWindow(entry.timestamp, start, end) THEN rest
            ELSE IF entry.form = "bad_value" THEN rest
            ELSE IF ConfidenceOK(GetConfidence(entry))
                 THEN <<[timestamp |-> entry.timestamp,
                         heart_rate |-> entry.bpm]>> \o rest
                 ELSE rest

\* the loop over the files, in sorted order; a file json.load rejects is
\* reported and passed over
RECURSIVE FitbitFilesRecords(_, _, _)
FitbitFilesRecords(files, start, end) ==
    IF files = <<>> THEN <<>>
    ELSE IF Head(files).valid
         THEN FitbitFileRecords(Head(files).data, start, end)
                \o FitbitFilesRecords(Tail(files), start, end)
         ELSE FitbitFilesRecords(Tail(files), start, end)

\* glob finds nothing in a directory that does not exist
Glob(exports_dir) ==
    IF exports_dir.state = "missing" THEN <<>> ELSE exports_dir.items

load_fitbit_files(exports_dir, start, end) ==
    LET files == Glob(exports_dir)
    IN IF files = <<>> THEN <<>>
       ELSE FitbitFilesRecords(files, start, end)

\* ----------------------------------------------------------------- report
RECURSIVE SortedKeys(_)
SortedKeys(S) ==
    IF S = {} THEN <<>>
    ELSE LET m == CHOOSE x \in S : \A y \in S : x <= y
         IN <<m>> \o SortedKeys(S \ {m})

RECURSIVE SumValues(_, _)
SumValues(keys, m) ==
    IF keys = <<>> THEN 0 ELSE m[Head(keys)] + SumValues(Tail(keys), m)

print_daily_summary_unguarded(daily_minutes) ==
    LET keys == SortedKeys(DOMAIN daily_minutes)
    IN [i \in 1..Len(keys) |-> <<"row", keys[i], daily_minutes[keys[i]]>>]
         \o << <<"total_days", Len(keys)>>,
               <<"total", SumValues(keys, daily_minutes)>> >>

\* the lines print_daily_summary writes
print_daily_summary(daily_minutes) ==
    IF DOMAIN daily_minutes = {} THEN << <<"no_time">> >>
    ELSE LET keys == SortedKeys(DOMAIN daily_minutes)
         IN [i \in 1..Len(keys) |-> <<"row", keys[i], daily_minutes[keys[i]]>>]
              \o << <<"total_days", Len(keys)>>,
                    <<"total", SumValues(keys, daily_minutes)>>,
                    <<"average", SumValues(keys, daily_minutes), Len(keys)>> >>

\* the sources a run can be given
FitbitFiles(n) ==
    {[valid |-> FALSE, data |-> <<>>]}
      \cup {[valid |-> TRUE, data |-> d] : d \in SeqsUpTo(FitbitEntries, n)}

\* the directories of at most k files and of size at most n, where a file
\* counts for the number of its entries and for 1 when it has none
FileSize(f) == IF f.data = <<>> THEN 1 ELSE Len(f.data)

RECURSIVE FitbitDirs(_, _)
FitbitDirs(k, n) ==
    IF k = 0 \/ n = 0 THEN {<<>>}
    ELSE {<<>>} \cup UNION {{<<f>> \o d : d \in FitbitDirs(k - 1, n - FileSize(f))} :
                               f \in FitbitFiles(n)}

AppleSources ==
    {[state |-> "missing", items |-> <<>>]}
      \cup [state : {"ok", "unparsable"}, items : SeqsUpTo(AppleElems, MaxEntries)]

FitbitSources ==
    {[state |-> "missing", items |-> <<>>]}
      \cup [state : {"ok"}, items : FitbitDirs(MaxFiles, MaxEntries)]

\* ------------------------------------------------------------------ state
VARIABLES
    prog,       \* which of the two programs
    min_bpm,    \* the threshold
    records,    \* the caller's list object (sorted in place by the engine)
    daily,      \* the map returned by the latest call
    passed,     \* the list as it was when the latest call was made
    prev,       \* the map returned by the call before the latest
    pc,         \* the caller of the engine: "ready", "returned" (the first
                \* call returned), "permuted" (the caller then permuted the
                \* list), "returned_again" (a second call on the list as
                \* the first left it returned), "returned_permuted" (a
                \* second call on the permuted list returned);
                \* in a run of a program, the position in main
    source,     \* a run: the XML file (Apple) or the exports directory (Fitbit)
    start_utc,  \* a run: the window
    end_utc,
    exit_status, \* a run: <<>> while running, <<status>> once terminated
    out         \* a run: the report lines written

engineVars == <<passed, prev>>
runVars == <<source, start_utc, end_utc, exit_status, out>>
vars == <<prog, min_bpm, records, daily, passed, prev, pc,
          source, start_utc, end_utc, exit_status, out>>

Orderings(s) ==
    {[i \in 1..Len(s) |-> s[p[i]]] :
        p \in {q \in [1..Len(s) -> 1..Len(s)] :
                  \A a, b \in 1..Len(s) : a # b => q[a] # q[b]}}

Init ==
    /\ prog \in Progs
    /\ min_bpm \in MinBpms
    /\ records \in SeqsUpTo(IF prog = "apple" THEN AppleSamples
                            ELSE FitbitSamples, MaxLen)
    /\ daily = <<>>
    /\ passed = <<>>
    /\ prev = <<>>
    /\ pc = "ready"
    /\ source = [state |-> "none", items |-> <<>>]
    /\ start_utc = 0
    /\ end_utc = 0
    /\ exit_status = <<>>
    /\ out = <<>>

\* where the caller is once a call made at position p has returned
AfterCall(p) ==
    IF p = "ready" THEN "returned"
    ELSE IF p = "returned" THEN "returned_again"
    ELSE "returned_permuted"

AppleCalculate ==
    /\ prog = "apple"
    /\ pc \in {"ready", "returned", "permuted"}
    /\ LET r == apple_calculate_all_high_bpm_time(records, min_bpm)
       IN /\ records' = r.list
          /\ daily' = r.map
    /\ passed' = records
    /\ prev' = daily
    /\ pc' = AfterCall(pc)
    /\ UNCHANGED <<prog, min_bpm>>
    /\ UNCHANGED runVars

FitbitCalculate ==
    /\ prog = "fitbit"
    /\ pc \in {"ready", "returned", "permuted"}
    /\ LET r == fitbit_calculate_all_high_bpm_time(records, min_bpm)
       IN /\ records' = r.list
          /\ daily' = r.map
    /\ passed' = records
    /\ prev' = daily
    /\ pc' = AfterCall(pc)
    /\ UNCHANGED <<prog, min_bpm>>
    /\ UNCHANGED runVars

\* the caller presents the same samples in another order
Reorder ==
    /\ pc = "returned"
    /\ records' \in Orderings(records) \ {records}
    /\ pc' = "permuted"
    /\ UNCHANGED <<prog, min_bpm, daily, passed, prev>>
    /\ UNCHANGED runVars

Next == AppleCalculate \/ FitbitCalculate \/ Reorder

Spec == Init /\ [][Next]_vars

\* ------------------------------------------------------- a run of a program
RunInit ==
    /\ prog \in Progs
    /\ min_bpm \in RunMinBpms
    /\ source \in (IF prog = "apple" THEN AppleSources ELSE FitbitSources)
    /\ \E w \in Windows : start_utc = w[1] /\ end_utc = w[2]
    /\ records = <<>>
    /\ daily = <<>>
    /\ passed = <<>>
    /\ prev = <<>>
    /\ pc = "main"
    /\ exit_status = <<>>
    /\ out = <<>>

\* main: if start_utc >= end_utc: print error, sys.exit(1)
CheckWindow ==
    /\ pc = "main"
    /\ IF start_utc >= end_utc
       THEN /\ out' = Append(out, <<"error", "window">>)
            /\ exit_status' = <<1>>
            /\ pc' = "exited"
       ELSE /\ pc' = "load"
            /\ UNCHANGED <<out, exit_status>>
    /\ UNCHANGED <<prog, min_bpm, records, daily, source, start_utc, end_utc>>
    /\ UNCHANGED engineVars

\* apple main: daily_minutes = parse_heart_rate_data(...), which parses the
\* document and then calls calculate_all_high_bpm_time on what it kept
AppleParseHeartRateData ==
    /\ prog = "apple"
    /\ pc = "load"
    /\ IF source.state = "missing"
       THEN /\ out' = Append(out, <<"error", "not_found">>)
            /\ exit_status' = <<1>>
            /\ pc' = "exited"
            /\ UNCHANGED <<records, daily, passed, prev>>
       ELSE IF source.state = "unparsable"
       THEN /\ out' = Append(out, <<"error", "parse">>)
            /\ exit_status' = <<1>>
            /\ pc' = "exited"
            /\ UNCHANGED <<records, daily, passed, prev>>
       ELSE LET kept == AppleRecords(source.items, start_utc, end_utc)
                r == apple_calculate_all_high_bpm_time(kept, min_bpm)
            IN /\ passed' = kept
               /\ records' = r.list
               /\ daily' = r.map
               /\ prev' = daily
               /\ pc' = "report"
               /\ UNCHANGED <<out, exit_status>>
    /\ UNCHANGED <<prog, min_bpm, source, start_utc, end_utc>>

\* fitbit main: records = load_fitbit_files(...)
FitbitLoadFiles ==
    /\ prog = "fitbit"
    /\ pc = "load"
    /\ records' = load_fitbit_files(source, start_utc, end_utc)
    /\ pc' = "loaded"
    /\ UNCHANGED <<prog, min_bpm, daily>>
    /\ UNCHANGED engineVars
    /\ UNCHANGED runVars

\* fitbit main: if not records: print, sys.exit(0); else
\* daily_minutes = calculate_all_high_bpm_time(records, args.min_bpm)
FitbitAnalyze ==
    /\ prog = "fitbit"
    /\ pc = "loaded"
    /\ IF records = <<>>
       THEN /\ out' = Append(out, <<"no_data">>)
            /\ exit_status' = <<0>>
            /\ pc' = "exited"
            /\ UNCHANGED <<records, daily, passed, prev>>
       ELSE LET r == fitbit_calculate_all_high_bpm_time(records, min_bpm)
            IN /\ passed' = records
               /\ records' = r.list
               /\ daily' = r.map
               /\ prev' = daily
               /\ pc' = "report"
               /\ UNCHANGED <<out, exit_status>>
    /\ UNCHANGED <<prog, min_bpm, source, start_utc, end_utc>>

\* main: print_daily_summary(daily_minutes, ...), then the program ends
PrintDailySummary ==
    /\ pc = "report"
    /\ out' = out \o print_daily_summary(daily)
    /\ exit_status' = <<0>>
    /\ pc' = "exited"
    /\ UNCHANGED <<prog, min_bpm, records, daily, source, start_utc, end_utc>>
    /\ UNCHANGED engineVars

RunNext ==
    \/ CheckWindow
    \/ AppleParseHeartRateData
    \/ FitbitLoadFiles
    \/ FitbitAnalyze
    \/ PrintDailySummary

RunSpec == RunInit /\ [][RunNext]_vars

\* ------------------------------------------------- vocabulary of the claims
RECURSIVE SumOver(_, _)
SumOver(S, f) ==
    IF S = {} THEN 0
    ELSE LET x == CHOOSE y \in S : TRUE
         IN f[x] + SumOver(S \ {x}, f)

TotalSeconds(m) == SumOver(DOMAIN m, m)

\* a call of the engine has just returned
Returned == pc \in {"returned", "returned_again", "returned_permuted"}

TimeOf(r) == IF prog = "apple" THEN Instant(r.timestamp) ELSE r.timestamp

DateOf(r) ==
    IF prog = "apple" THEN apple_get_date_key(r.timestamp)
    ELSE fitbit_get_date_key(r.timestamp)

TimeSorted(s) == \A i \in 1..(Len(s) - 1) : TimeOf(s[i]) <= TimeOf(s[i + 1])

Count(s, x) == Cardinality({i \in DOMAIN s : s[i] = x})

SameSamples(s, t) ==
    /\ Len(s) = Len(t)
    /\ \A i \in DOMAIN s : Count(s, s[i]) = Count(t, s[i])

Qualifying(s) == {i \in DOMAIN s : s[i].heart_rate >= min_bpm}

\* [C1] Apple engine: the returned map gives, for each date d, the sum over
\* the qualifying samples i of the timestamp-sorted list whose date key is d
\* of min(gap to the next sample, 10) seconds, or 5 seconds for the last
\* sample; the scenario (t0,150),(t0+2,150),(t0+90,150), min_bpm 140 gives 17.
C1_Seconds ==
    [i \in DOMAIN records |->
        IF i < Len(records)
        THEN Min(Instant(records[i + 1].timestamp)
                   - Instant(records[i].timestamp), 10)
        ELSE 5]

C1_Scenario ==
    /\ prog = "apple"
    /\ Returned
    /\ min_bpm = 140
    /\ passed = << [timestamp |-> [wall |-> 86300, off |-> 0], heart_rate |-> 150],
                   [timestamp |-> [wall |-> 86302, off |-> 0], heart_rate |-> 150],
                   [timestamp |-> [wall |-> 86390, off |-> 0], heart_rate |-> 150] >>

C1_AppleAttribution ==
    (prog = "apple" /\ Returned) =>
        /\ TimeSorted(records)
        /\ SameSamples(records, passed)
        /\ \A i \in Qualifying(records) :
               apple_get_date_key(records[i].timestamp) \in DOMAIN daily
        /\ \A d \in DOMAIN daily :
               daily[d] = SumOver({i \in Qualifying(records) :
                                     apple_get_date_key(records[i].timestamp) = d},
                                  C1_Seconds)
        /\ C1_Scenario => daily = (0 :> 17)

C1_Witness == C1_Scenario /\ daily = (0 :> 17)

\* [C2] Fitbit engine: the returned map gives, for each date d, the sum over
\* the qualifying samples i of the timestamp-sorted list whose date key is d
\* of the raw gap to the next sample, or 3 seconds for the last sample; the
\* whole gap goes to the date of sample i even when sample i+1 is on a later
\* date; the scenario (t0,150),(t0+2,150),(t0+90,150), min_bpm 140 gives 93.
C2_Seconds ==
    [i \in DOMAIN records |->
        IF i < Len(records)
        THEN records[i + 1].timestamp - records[i].timestamp
        ELSE 3]

C2_Scenario ==
    /\ prog = "fitbit"
    /\ Returned
    /\ min_bpm = 140
    /\ passed = << [timestamp |-> 86300, heart_rate |-> 150],
                   [timestamp |-> 86302, heart_rate |-> 150],
                   [timestamp |-> 86390, heart_rate |-> 150] >>

C2_FitbitAttribution ==
    (prog = "fitbit" /\ Returned) =>
        /\ TimeSorted(records)
        /\ SameSamples(records, passed)
        /\ \A i \in Qualifying(records) :
               fitbit_get_date_key(records[i].timestamp) \in DOMAIN daily
        /\ \A d \in DOMAIN daily :
               daily[d] = SumOver({i \in Qualifying(records) :
                                     fitbit_get_date_key(records[i].timestamp) = d},
                                  C2_Seconds)
        /\ C2_Scenario => daily = (0 :> 93)

\* a qualifying sample just before midnight followed by one after it: the
\* whole gap is on the first sample's date
C2_Witness ==
    /\ prog = "fitbit"
    /\ Returned
    /\ min_bpm = 140
    /\ records = << [timestamp |-> 86300, heart_rate |-> 150],
                    [timestamp |-> 86402, heart_rate |-> 150] >>
    /\ daily = (0 :> 102) @@ (1 :> 3)

\* [C3] Order-independence as stated: feeding the same multiset of samples
\* in another order (samples sharing a timestamp with different heart rates
\* included) yields the same map.
C3_OrderIndependent == pc = "returned_permuted" => daily = prev

\* samples that share a timestamp agree on qualifying and on their date key
TiesAgree ==
    \A i, j \in DOMAIN records :
        TimeOf(records[i]) = TimeOf(records[j]) =>
            /\ (records[i].heart_rate >= min_bpm) = (records[j].heart_rate >= min_bpm)
            /\ DateOf(records[i]) = DateOf(records[j])

\* [C3] amended: order-independence holds when the samples that share a
\* timestamp are all qualifying or all not, and have the same date key.
C3_OrderIndependentUpToTies ==
    (pc = "returned_permuted" /\ TiesAgree) => daily = prev

C3_Witness ==
    /\ pc = "returned_permuted"
    /\ TiesAgree
    /\ passed # records
    /\ \E i, j \in DOMAIN records :
           /\ i # j
           /\ TimeOf(records[i]) = TimeOf(records[j])
           /\ records[i] # records[j]
    /\ Cardinality(DOMAIN daily) = 2
    /\ daily = prev

\* [C5] Qualification: a sample contributes iff heart_rate >= min_bpm.  Every
\* key of the map is the date of a qualifying sample, every qualifying
\* sample (one exactly at min_bpm included) has its date in the map, the
\* attributed total is the sum of the durations of the qualifying samples
\* only, and with no qualifying sample the map is empty.
C5_Duration ==
    [i \in DOMAIN records |->
        IF prog = "apple" THEN AppleDuration(records, i)
        ELSE FitbitDuration(records, i)]

C5_Qualification ==
    Returned =>
        /\ \A d \in DOMAIN daily :
               \E i \in DOMAIN records :
                   /\ DateOf(records[i]) = d
                   /\ records[i].heart_rate >= min_bpm
        /\ \A i \in DOMAIN records :
               records[i].heart_rate >= min_bpm => DateOf(records[i]) \in DOMAIN daily
        /\ TotalSeconds(daily) =
               SumOver({i \in DOMAIN records : ~(records[i].heart_rate < min_bpm)},
                       C5_Duration)
        /\ (\A i \in DOMAIN records : records[i].heart_rate < min_bpm) => daily = <<>>

\* a sample exactly at the threshold is counted, the one a unit below is not
C5_Witness ==
    /\ Returned
    /\ min_bpm = 150
    /\ Len(records) = 2
    /\ records[1].heart_rate = 149
    /\ records[2].heart_rate = 150
    /\ DateOf(records[1]) # DateOf(records[2])
    /\ DOMAIN daily = {DateOf(records[2])}

\* [C6] Lowest threshold: when every sample of a non-empty series is at or
\* above min_bpm, the map's total is the sum over consecutive pairs of the
\* sorted series of the gap (capped at 10 s for Apple, uncapped for Fitbit)
\* plus one fallback (5 s Apple, 3 s Fitbit).
C6_Gap ==
    [i \in 1..(Len(records) - 1) |->
        IF prog = "apple"
        THEN Min(TimeOf(records[i + 1]) - TimeOf(records[i]), 10)
        ELSE TimeOf(records[i + 1]) - TimeOf(records[i])]

C6_LowestThresholdTotal ==
    (Returned /\ records # <<>>
       /\ \A i \in DOMAIN records : min_bpm <= records[i].heart_rate) =>
        TotalSeconds(daily) =
            SumOver(1..(Len(records) - 1), C6_Gap)
              + (IF prog = "apple" THEN 5 ELSE 3)

C6_Witness ==
    /\ Returned
    /\ Len(records) = 3
    /\ \A i \in DOMAIN records : min_bpm <= records[i].heart_rate
    /\ \E i \in 1..2 : TimeOf(records[i + 1]) - TimeOf(records[i]) > 10
    /\ prog = "apple"
    /\ TotalSeconds(daily) = 17

C10_Idempotent ==
    /\ (Returned /\ TimeSorted(passed)) => records = passed
    /\ pc = "returned_again" =>
           /\ TimeSorted(passed)
           /\ records = passed
           /\ daily = prev

C10_Witness ==
    /\ pc = "returned_again"
    /\ records = passed
    /\ daily = prev
    /\ daily # <<>>
    /\ \E i \in 1..(Len(records) - 1) :
           /\ TimeOf(records[i]) = TimeOf(records[i + 1])
           /\ records[i] # records[i + 1]

\* ------------------------------------------------ vocabulary of a run's claims
\* the entries of the files that parse, in the order they are read
RECURSIVE Flatten(_)
Flatten(files) ==
    IF files = <<>> THEN <<>>
    ELSE (IF Head(files).valid THEN Head(files).data ELSE <<>>)
           \o Flatten(Tail(files))

AsSamples(entries) ==
    [i \in DOMAIN entries |->
        [timestamp |-> entries[i].timestamp,
         heart_rate |-> IF prog = "apple" THEN entries[i].heart_rate
                        ELSE entries[i].bpm]]

\* the adapter has finished reading a source it could read
Loaded ==
    \/ prog = "apple" /\ pc = "report"
    \/ prog = "fitbit" /\ pc = "loaded"

\* the samples the adapter emitted
Emitted == IF prog = "apple" THEN passed ELSE records

InWindow(t) == start_utc <= t /\ t <= end_utc

\* [C4] Fatal source errors: a missing source location or a source document
\* that cannot be parsed ends the run with a non-zero status and no per-day
\* result, in both adapters; a readable source ends the run with status 0
\* whatever malformed records it holds.
SourceBroken ==
    \/ source.state \in {"missing", "unparsable"}
    \/ prog = "fitbit" /\ \E i \in DOMAIN source.items : ~source.items[i].valid

C4_FatalSourceErrors ==
    (pc = "exited" /\ start_utc < end_utc) =>
        IF SourceBroken
        THEN /\ exit_status = <<1>>
             /\ \A i \in DOMAIN out : out[i][1] # "row"
        ELSE exit_status = <<0>>

\* [C7] Inclusive window: a well-formed entry that passes the adapter's
\* type or confidence filter is emitted iff start <= timestamp <= end, so
\* the emitted samples are exactly those entries, in order, and each lies
\* inside the window.
C7_AppleKeeps(elem) ==
    /\ elem.type = "HeartRate"
    /\ elem.form = "ok"
    /\ InWindow(Instant(elem.timestamp))

C7_FitbitKeeps(entry) ==
    /\ entry.form = "ok"
    /\ ConfidenceOK(GetConfidence(entry))
    /\ InWindow(entry.timestamp)

C7_InclusiveWindow ==
    Loaded =>
        /\ Emitted = (IF prog = "apple"
                      THEN AsSamples(SelectSeq(source.items, C7_AppleKeeps))
                      ELSE AsSamples(SelectSeq(Flatten(Glob(source)), C7_FitbitKeeps)))
        /\ \A i \in DOMAIN Emitted : InWindow(TimeOf(Emitted[i]))

\* an entry exactly at start and one exactly at end are both kept
C7_Witness ==
    /\ Loaded
    /\ Len(Emitted) = 2
    /\ TimeOf(Emitted[1]) = start_utc
    /\ TimeOf(Emitted[2]) = end_utc

\* [C8] Fitbit confidence filter: an in-window entry is emitted iff its
\* confidence (0 when the field is absent) is >= 1, and the per-day map is
\* the one computed from the emitted entries alone: an excluded entry adds
\* nothing and never ends another sample's interval.
C8_Included(entry) ==
    /\ entry.form = "ok"
    /\ ~FitbitOutsideWindow(entry.timestamp, start_utc, end_utc)
    /\ entry.confidence # <<>>
    /\ entry.confidence[1] >= 1

C8_IncludedSamples == AsSamples(SelectSeq(Flatten(Glob(source)), C8_Included))

C8_ConfidenceFilter ==
    /\ (prog = "fitbit" /\ pc = "loaded") => records = C8_IncludedSamples
    /\ (prog = "fitbit" /\ pc = "report") =>
           /\ passed = C8_IncludedSamples
           /\ daily = fitbit_calculate_all_high_bpm_time(C8_IncludedSamples,
                                                         min_bpm).map

\* a confidence-1 entry followed, 88 s later and inside the window, by a
\* confidence-0 entry: only the first is a sample, and it gets the 3 s
\* fallback, not the 88 s to the excluded entry
C8_Witness ==
    /\ prog = "fitbit"
    /\ pc = "report"
    /\ source.state = "ok"
    /\ source.items = << [valid |-> TRUE, data |->
            << [form |-> "ok", timestamp |-> 86302, bpm |-> 150, confidence |-> <<1>>],
               [form |-> "ok", timestamp |-> 86390, bpm |-> 150, confidence |-> <<0>>]
            >>] >>
    /\ end_utc >= 86390
    /\ daily = (0 :> 3)

\* [C11] Empty window: a run with start < end and an existing, well-formed
\* source none of whose records lies inside the window ends with status 0
\* after one explicit empty-result message, and writes no per-day row, no
\* total and no average.
C11_SourceEntries ==
    IF prog = "apple" THEN source.items ELSE Flatten(Glob(source))

C11_ZeroInWindow ==
    \A i \in DOMAIN C11_SourceEntries :
        C11_SourceEntries[i].form = "ok" =>
            ~InWindow(IF prog = "apple"
                      THEN Instant(C11_SourceEntries[i].timestamp)
                      ELSE C11_SourceEntries[i].timestamp)

C11_EmptyWindow ==
    (pc = "exited" /\ start_utc < end_utc /\ ~SourceBroken /\ C11_ZeroInWindow) =>
        /\ exit_status = <<0>>
        /\ \E i \in DOMAIN out : out[i][1] \in {"no_data", "no_time"}
        /\ \A i \in DOMAIN out :
               out[i][1] \notin {"row", "total_days", "total", "average", "error"}

\* the window lies strictly before the only record of the source
C11_Witness ==
    /\ pc = "exited"
    /\ start_utc < end_utc
    /\ ~SourceBroken
    /\ Len(C11_SourceEntries) = 1
    /\ C11_SourceEntries[1].form = "ok"
    /\ (IF prog = "apple" THEN Instant(C11_SourceEntries[1].timestamp)
        ELSE C11_SourceEntries[1].timestamp) > end_utc
    /\ exit_status = <<0>>
    /\ Len(out) = 1

====
